---- MODULE Spec2Model ----
(***************************************************************************)
(* Model of the singularis rhetorical-role labeller.                       *)
(*                                                                         *)
(*  - label_with_spacy.label_items: one sentence unit walks through        *)
(*    _score_sentence, the structural-citation bonus, _compute_flags,      *)
(*    _apply_boosts, _resolve_label and the two suppression filters.       *)
(*  - imrad_grobid_pipeline.merge_adjacent: the span merger, run twice     *)
(*    (the second pass takes the first pass's output as its input).        *)
(*  - the rectangle union of merge_adjacent on three rectangles, in every  *)
(*    order and grouping.                                                  *)
(*  - label_with_spacy._resolve_label as a function of its arguments,      *)
(*    step by step, also on dicts whose keys were inserted in any order.   *)
(*  - label_with_spacy.label_items on a list of units, the locals of one   *)
(*    iteration staying in place until the next assigns them.              *)
(*  - tei_iter_sentences of parse_pdf_grobid and imrad_grobid_pipeline:    *)
(*    the walk over the TEI elements with the section tracker.             *)
(*  - imrad_spacy_matchers.merge_adjacent next to the pipeline's.          *)
(*                                                                         *)
(* Rule identifiers are sequences of their underscore-separated parts:     *)
(* "INF_CIT_DOI" is <<"INF","CIT","DOI">>, and the prefix "INF_CIT_" is    *)
(* <<"INF","CIT">> followed by at least one more part.  A text is the      *)
(* sequence of its tokens; each token stands for its lower-cased lemma.    *)
(***************************************************************************)
EXTENDS Integers, Sequences, FiniteSets, TLC

VARIABLES
    it,              \* the sentence unit being labelled (text, section_hint, has_citation)
    surfaceMatches,  \* what matcher(doc) returns for the unit: rule ids, one per match
    depMatches,      \* what depmatcher(doc) returns for the unit
    citation_soft,   \* label_items' keyword argument
    pc,              \* position inside the body of label_items' loop
    scores,          \* dict label -> int
    hits,            \* dict rule id -> count
    flags,           \* record built by _compute_flags
    label,           \* the local variable label
    records,         \* merge_adjacent: the argument of the running pass
    merged,          \* merge_adjacent: the list being built
    k,               \* merge_adjacent: index of the next record of records[1:]
    mpc,             \* merge_adjacent: position
    pass,            \* which call of merge_adjacent is running (1 or 2)
    units,           \* the records handed to the first call
    rl_keys,         \* _resolve_label: the keys of scores in the dict's iteration order
    rl_had_matches,  \* _resolve_label: the argument had_matches
    rl_chosen,       \* _resolve_label: the local variable chosen before the postfixes
    boxes,           \* rectangle union: the rectangles A, B, C
    hull,            \* rectangle union: the rectangle computed from them
    upc,             \* rectangle union: position
    items,           \* label_items: the argument items, each unit with what the matchers return on it
    idx,             \* label_items: the loop variable i
    out,             \* label_items: the list out
    tei,             \* tei_iter_sentences: the elements of the document in the order of root.iter()
    tpos,            \* tei_iter_sentences: how many elements the loop has processed
    current_imrad_section,  \* tei_iter_sentences: the section tracker
    yielded,         \* tei_iter_sentences: the units yielded so far
    impl,            \* which module's tei_iter_sentences is running
    sm_cur,          \* imrad_spacy_matchers.merge_adjacent: the local variable cur
    sm_merged,       \* imrad_spacy_matchers.merge_adjacent: the list merged
    sm_k,            \* imrad_spacy_matchers.merge_adjacent: index of the next record of records[1:]
    sm_pc            \* imrad_spacy_matchers.merge_adjacent: position

labelVars == <<it, surfaceMatches, depMatches, citation_soft, pc, scores, hits, flags, label>>
mergeVars == <<records, merged, k, mpc, pass, units>>
callVars == <<rl_keys, rl_had_matches, rl_chosen>>
unionVars == <<boxes, hull, upc>>
itemVars == <<items, idx, out>>
walkVars == <<tei, tpos, current_imrad_section, yielded, impl>>
spacyVars == <<sm_cur, sm_merged, sm_k, sm_pc>>
vars == <<it, surfaceMatches, depMatches, citation_soft, pc, scores, hits, flags, label,
          records, merged, k, mpc, pass, units, rl_keys, rl_had_matches, rl_chosen, boxes, hull, upc,
          items, idx, out, tei, tpos, current_imrad_section, yielded, impl,
          sm_cur, sm_merged, sm_k, sm_pc>>

(***************************************************************************)
(* Bounds                                                                  *)
(***************************************************************************)
MaxHits == 2       \* rule matches (surface + relational) per unit
MaxRecs == 3       \* records handed to merge_adjacent
MaxCoord == 1      \* largest coordinate of a rectangle handed to the union
MaxPts == 4        \* points the hits and boosts of one unit give to one label
MaxItems == 2      \* units handed to one call of label_items
MaxNodes == 3      \* headings, sentences, figure captions and tables of one document

(***************************************************************************)
(* Labels, sections, tables                                                *)
(***************************************************************************)
LABELS == <<"Input Fact", "Hypothesis", "Experiment", "Technique",
            "Result", "Dataset", "Analysis", "Conclusion">>

LabelSet == {LABELS[i] : i \in 1..Len(LABELS)}

Sections == {"ABSTRACT", "INTRO", "METHODS", "RESULTS", "DISCUSSION",
             "CONCLUSION", "REFERENCES", "OTHER"}

\* faulty variant: the RESULTS entry of SECTION_PRIORS is missing
SECTION_PRIORS_NoResults(section) ==
    CASE section = "ABSTRACT"   -> << <<"Hypothesis", 1>> >>
      [] section = "INTRO"      -> << <<"Input Fact", 1>>, <<"Hypothesis", 2>> >>
      [] section = "METHODS"    -> << <<"Experiment", 2>>, <<"Technique", 2>>,
                                      <<"Dataset", 1>>, <<"Analysis", 1>> >>
      [] section = "DISCUSSION" -> << <<"Conclusion", 2>>, <<"Result", 1>>,
                                      <<"Hypothesis", 1>> >>
      [] section = "CONCLUSION" -> << <<"Conclusion", 2>> >>
      [] OTHER                  -> << >>

\* SECTION_PRIORS[section] as a sequence of <<label, weight>> pairs
SECTION_PRIORS(section) ==
    CASE section = "ABSTRACT"   -> << <<"Hypothesis", 1>> >>
      [] section = "INTRO"      -> << <<"Input Fact", 1>>, <<"Hypothesis", 2>> >>
      [] section = "METHODS"    -> << <<"Experiment", 2>>, <<"Technique", 2>>,
                                      <<"Dataset", 1>>, <<"Analysis", 1>> >>
      [] section = "RESULTS"    -> << <<"Result", 2>>, <<"Analysis", 1>> >>
      [] section = "DISCUSSION" -> << <<"Conclusion", 2>>, <<"Result", 1>>,
                                      <<"Hypothesis", 1>> >>
      [] section = "CONCLUSION" -> << <<"Conclusion", 2>> >>
      [] OTHER                  -> << >>

\* PREFIX2LABEL as a sequence of <<prefix, label>> pairs, in the dict's order
PREFIX2LABEL ==
    << << <<"INF">>,  "Input Fact">>, << <<"HYP">>,  "Hypothesis">>,
       << <<"EXP">>,  "Experiment">>, << <<"TEC">>,  "Technique">>,
       << <<"RES">>,  "Result">>,     << <<"DATA">>, "Dataset">>,
       << <<"ANA">>,  "Analysis">>,   << <<"CONC">>, "Conclusion">> >>

CIT_STRUCT_BONUS == 4
CIT_RULE_BONUS == 3
CIT_RULE_PREFIX == <<"INF", "CIT">>

BOOST_ANA == 3
BOOST_RES == 3
BOOST_HYP_INTRO == 2
BOOST_EXP == 2
BOOST_TEC == 2
BOOST_DATA_NO_SIG == 2
BOOST_INF_CIT == 1

\* WEIGHTS["tie_order"]
TIE_ORDER == <<"Conclusion", "Result", "Analysis", "Technique", "Experiment",
               "Dataset", "Input Fact", "OTHER">>

\* SECTION_TIE_ORDER.get(section, WEIGHTS["tie_order"])
SECTION_TIE_ORDER(section) ==
    CASE section = "ABSTRACT"   -> <<"Conclusion", "Result", "Hypothesis", "Dataset",
                                     "Technique", "Analysis", "Experiment", "Input Fact">>
      [] section = "INTRO"      -> <<"Hypothesis", "Input Fact", "Conclusion", "Result",
                                     "Analysis", "Technique", "Experiment", "Dataset">>
      [] section = "METHODS"    -> <<"Technique", "Experiment", "Dataset", "Analysis",
                                     "Result", "Input Fact", "Hypothesis", "Conclusion">>
      [] section = "RESULTS"    -> <<"Result", "Analysis", "Dataset", "Technique",
                                     "Experiment", "Conclusion", "Input Fact", "Hypothesis">>
      [] section = "DISCUSSION" -> <<"Conclusion", "Result", "Analysis", "Technique",
                                     "Experiment", "Dataset", "Input Fact", "Hypothesis">>
      [] section = "CONCLUSION" -> <<"Conclusion", "Result", "Analysis", "Technique",
                                     "Experiment", "Dataset", "Input Fact", "Hypothesis">>
      [] OTHER                  -> TIE_ORDER

SIG_WORDS == {"significant", "significantly", "significance"}

ABS_HEAD_RESULTS_KEYS == { <<"RES", "ABS", "HEAD", "RESULTS">> }
ABS_HEAD_CONC_KEYS == { <<"CONC", "ABS", "HEAD">> }

INF_CIT_STRUCT == <<"INF", "CIT", "STRUCT">>
INF_CITATION == <<"INF", "CITATION">>

(***************************************************************************)
(* Dict helpers                                                            *)
(***************************************************************************)
\* d.get(key, default)
Get(d, key, default) == IF key \in DOMAIN d THEN d[key] ELSE default

\* d[key] = value  (adds the key when it is missing)
SetKey(d, key, value) ==
    [x \in (DOMAIN d) \cup {key} |-> IF x = key THEN value ELSE d[x]]

\* scores[lab] += w  (the key must exist)
AddTo(d, key, w) == [d EXCEPT ![key] = @ + w]

\* scores[lab] = scores.get(lab, 0) + w
Boost(d, key, w) == SetKey(d, key, Get(d, key, 0) + w)

\* hits[name] += 1 on a defaultdict(int)
CountHit(d, name) == SetKey(d, name, Get(d, name, 0) + 1)

EmptyDict == [x \in {} |-> 0]

\* name.startswith(pref), pref ending in "_"
StartsWith(name, pref) ==
    /\ Len(name) > Len(pref)
    /\ SubSeq(name, 1, Len(pref)) = pref

(***************************************************************************)
(* _score_sentence                                                         *)
(***************************************************************************)
\* for pref, lab in PREFIX2LABEL.items(): if name.startswith(pref): scores[lab] += inc
RECURSIVE AddPrefixScores(_, _, _, _)
AddPrefixScores(s, name, inc, i) ==
    IF i > Len(PREFIX2LABEL) THEN s
    ELSE AddPrefixScores(
             IF StartsWith(name, PREFIX2LABEL[i][1])
                 THEN AddTo(s, PREFIX2LABEL[i][2], inc) ELSE s,
             name, inc, i + 1)

\* one iteration of the loop over matcher(doc_sent)
SurfaceStepScores(s, name) ==
    LET s1 == AddPrefixScores(s, name, 1, 1)
    IN  IF StartsWith(name, CIT_RULE_PREFIX)
            THEN AddTo(s1, "Input Fact", CIT_RULE_BONUS) ELSE s1

\* faulty variant: line 148 adds 1, as the surface loop does
DepStepScores_SurfaceIncrement(s, name) == AddPrefixScores(s, name, 1, 1)

\* one iteration of the loop over depmatcher(doc_sent)
DepStepScores(s, name) == AddPrefixScores(s, name, 2, 1)

\* the loop over matcher(doc_sent); sh is the pair <<scores, hits>>
RECURSIVE SurfaceLoop(_, _, _)
SurfaceLoop(sh, ms, i) ==
    IF i > Len(ms) THEN sh
    ELSE SurfaceLoop(<<SurfaceStepScores(sh[1], ms[i]), CountHit(sh[2], ms[i])>>, ms, i + 1)

\* the loop over depmatcher(doc_sent)
RECURSIVE DepLoop(_, _, _)
DepLoop(sh, ms, i) ==
    IF i > Len(ms) THEN sh
    ELSE DepLoop(<<DepStepScores(sh[1], ms[i]), CountHit(sh[2], ms[i])>>, ms, i + 1)

\* for lab, w in SECTION_PRIORS.get(section, {}).items(): scores[lab] += w
RECURSIVE AddPriors(_, _, _)
AddPriors(s, pri, i) ==
    IF i > Len(pri) THEN s
    ELSE AddPriors(AddTo(s, pri[i][1], pri[i][2]), pri, i + 1)

\* _score_sentence(doc_sent, section, matcher, depmatcher) -> <<scores, hits>>
ScoreSentence(section, surf, dep) ==
    LET zero == [lab \in LabelSet |-> 0]
        a == SurfaceLoop(<<zero, EmptyDict>>, surf, 1)
        b == DepLoop(a, dep, 1)
    IN  <<AddPriors(b[1], SECTION_PRIORS(section), 1), b[2]>>

(***************************************************************************)
(* Text heuristics                                                         *)
(***************************************************************************)
\* tokens matched by \b(vol\.?|no\.?|pp\.?|doi:?|issn|et al\.)\b
BibMarkers == {"vol.", "no.", "pp.", "doi", "issn"}
\* tokens matched by \b(19|20)\d{2}\b
YearTokens == {"2019"}
\* tokens matched by \b\d{1,4}\s*[-]\s*\d{1,4}\b
PageRangeTokens == {"12-34"}

SeqHas(seq, S) == \E i \in 1..Len(seq) : seq[i] \in S

\* text.count(tok)
Count(seq, tok) == Cardinality({i \in 1..Len(seq) : seq[i] = tok})

\* looks_like_reference(text)
LooksLikeReference(text) ==
    IF SeqHas(text, BibMarkers) THEN TRUE
    ELSE IF SeqHas(text, YearTokens) /\ SeqHas(text, PageRangeTokens) THEN TRUE
    ELSE FALSE

(***************************************************************************)
(* _compute_flags                                                          *)
(***************************************************************************)
\* _any_hit(hits, keys)
AnyHit(h, keys) == \E key \in keys : key \in DOMAIN h /\ h[key] > 0

CitationRuleKeys ==
    { <<"INF", "CIT", "BRACK", "NUM">>, <<"INF", "CIT", "PAREN", "AUTHOR", "YEAR">>,
      <<"INF", "CIT", "PAREN", "YEAR", "ONLY">>, <<"INF", "CIT", "ETAL", "YEAR">>,
      <<"INF", "CIT", "DOI">> }

\* _compute_flags(doc, hits, section_hint, has_citation_field)
ComputeFlags(doc, h, section_hint, has_citation_field) ==
    LET sec == section_hint
        has_res_stats == AnyHit(h, { <<"RES", "STATS">> })
        has_tech_using == AnyHit(h, { <<"TEC", "USING">>, <<"TEC", "SURFACE">> })
        is_intro_like == sec \in {"INTRO", "ABSTRACT"}
        has_significance_word == SeqHas(doc, SIG_WORDS)
    IN  [ section |-> sec,
          has_res_summary |-> AnyHit(h, { <<"RES", "SUMMARY">> }),
          has_res_verb_cues |-> AnyHit(h, { <<"RES", "VERB", "CUES">>, <<"RES", "WE", "VERB">> }),
          has_res_stats |-> has_res_stats,
          has_analysis_test |-> AnyHit(h, { <<"ANA", "SURFACE">>, <<"ANA", "DEP">>,
                                            <<"ANA", "USING">> }),
          has_hyp_intro |-> AnyHit(h, { <<"HYP", "SURFACE">> }) /\ is_intro_like,
          has_experiment_ops |-> AnyHit(h, { <<"EXP", "SURFACE">>, <<"EXP", "DOBJ">> }),
          has_tech_using |-> has_tech_using,
          has_scale_classification |-> has_tech_using,
          has_dataset_cues |-> AnyHit(h, { <<"DATA", "SURFACE">> }),
          has_citation_rule |-> AnyHit(h, CitationRuleKeys) \/ has_citation_field,
          has_significance |-> has_res_stats \/ has_significance_word,
          has_abs_head_results |-> AnyHit(h, ABS_HEAD_RESULTS_KEYS),
          has_abs_head_conc |-> AnyHit(h, ABS_HEAD_CONC_KEYS),
          has_pct_list |-> Count(doc, "%") >= 2,
          has_hyp_surface_any |-> AnyHit(h, { <<"HYP", "SURFACE">> }) ]

\* the value of flags before _compute_flags has run
NoFlags == ComputeFlags(<< >>, EmptyDict, "OTHER", FALSE)

(***************************************************************************)
(* _apply_boosts                                                           *)
(***************************************************************************)
BoostIf(cond, s, lab, w) == IF cond THEN Boost(s, lab, w) ELSE s

\* lines 228-241: the seven flag boosts
FlagBoosts(s, f) ==
    LET s1 == BoostIf(f.has_analysis_test, s, "Analysis", BOOST_ANA)
        s2 == BoostIf(f.has_res_summary \/ f.has_res_verb_cues \/ f.has_res_stats,
                      s1, "Result", BOOST_RES)
        s3 == BoostIf(f.has_hyp_intro, s2, "Hypothesis", BOOST_HYP_INTRO)
        s4 == BoostIf(f.has_experiment_ops, s3, "Experiment", BOOST_EXP)
        s5 == BoostIf(f.has_tech_using \/ f.has_scale_classification,
                      s4, "Technique", BOOST_TEC)
        s6 == BoostIf(f.has_dataset_cues /\ ~f.has_significance,
                      s5, "Dataset", BOOST_DATA_NO_SIG)
    IN  BoostIf(f.section \in {"INTRO", "ABSTRACT"} /\ f.has_citation_rule,
                s6, "Input Fact", BOOST_INF_CIT)

\* faulty variant: line 250 misspells the key, so scores.get() adds a ninth entry
AbstractBoosts_TypoKey(s, f) ==
    IF f.section = "ABSTRACT"
    THEN LET s1 == BoostIf(f.has_abs_head_results, s, "Result", 2)
             s2 == BoostIf(f.has_abs_head_conc, s1, "Conclusion", 2)
         IN  BoostIf(f.has_pct_list, s2, "Results", 1)
    ELSE s

\* lines 244-250: ABSTRACT headers and percent lists
AbstractBoosts(s, f) ==
    IF f.section = "ABSTRACT"
    THEN LET s1 == BoostIf(f.has_abs_head_results, s, "Result", 2)
             s2 == BoostIf(f.has_abs_head_conc, s1, "Conclusion", 2)
         IN  BoostIf(f.has_pct_list, s2, "Result", 1)
    ELSE s

\* faulty variant: line 253 leaves has_significance out of the guard
DatasetHelp_IgnoresSignificance(s, f) ==
    BoostIf(/\ f.section \in {"ABSTRACT", "METHODS"}
            /\ f.has_dataset_cues
            /\ ~f.has_analysis_test,
            s, "Dataset", 1)

\* lines 253-254: ABSTRACT/METHODS dataset help
DatasetHelp(s, f) ==
    BoostIf(/\ f.section \in {"ABSTRACT", "METHODS"}
            /\ f.has_dataset_cues
            /\ ~(f.has_significance \/ f.has_analysis_test),
            s, "Dataset", 1)

\* faulty variant: line 257 does not test scores.get("Technique", 0) > 0
AimsAdjust_Unguarded(s, f) ==
    IF /\ f.section \in {"INTRO", "ABSTRACT"}
       /\ f.has_hyp_surface_any
    THEN AddTo(AddTo(s, "Hypothesis", 2), "Technique", -1)
    ELSE s

\* lines 257-259: aims detected, downweight Technique
AimsAdjust(s, f) ==
    IF /\ f.section \in {"INTRO", "ABSTRACT"}
       /\ f.has_hyp_surface_any
       /\ Get(s, "Technique", 0) > 0
    THEN AddTo(AddTo(s, "Hypothesis", 2), "Technique", -1)
    ELSE s

\* _apply_boosts(scores, flags)
ApplyBoosts(s, f) == AimsAdjust(DatasetHelp(AbstractBoosts(FlagBoosts(s, f), f), f), f)

(***************************************************************************)
(* _resolve_label                                                          *)
(***************************************************************************)
\* max(scores.values())
MaxScore(s) == CHOOSE m \in {s[x] : x \in DOMAIN s} : \A x \in DOMAIN s : s[x] <= m

\* the dict's keys in iteration order: LABELS was the insertion order
KeyOrder(s) == SelectSeq(LABELS, LAMBDA lab : lab \in DOMAIN s)

\* cands = [lab for lab, v in scores.items() if v == max_score], the dict
\* being iterated in the order ks
CandsIn(ks, s) ==
    LET max_score == MaxScore(s)
    IN  SelectSeq(ks, LAMBDA lab : s[lab] = max_score)

\* line 274, for the dict _score_sentence builds
Cands(s) == CandsIn(KeyOrder(s), s)

\* section_order.index(x) if x in section_order else len(section_order)  (1-based)
OrderKey(order, x) ==
    IF \E i \in 1..Len(order) : order[i] = x
    THEN CHOOSE i \in 1..Len(order) : order[i] = x /\ \A j \in 1..(i - 1) : order[j] # x
    ELSE Len(order) + 1

\* cands.sort(key=...); cands[0]  (the sort is stable)
TieBreak(cands, order) ==
    LET best == CHOOSE i \in 1..Len(cands) :
                    /\ \A j \in 1..Len(cands) :
                           OrderKey(order, cands[i]) <= OrderKey(order, cands[j])
                    /\ \A j \in 1..(i - 1) :
                           OrderKey(order, cands[j]) > OrderKey(order, cands[i])
    IN  cands[best]

\* faulty variant: delta is 0, only a label that reaches the maximum is promoted
RECURSIVE NearTie_Strict(_, _, _, _, _)
NearTie_Strict(order, i, chosen, s, max_score) ==
    IF i > Len(order) THEN chosen
    ELSE IF order[i] = chosen THEN chosen
    ELSE IF Get(s, order[i], -999) >= max_score THEN order[i]
    ELSE NearTie_Strict(order, i + 1, chosen, s, max_score)

\* faulty variant: line 292 defaults to max_score for a label scores lacks
RECURSIVE NearTie_DefaultMax(_, _, _, _, _)
NearTie_DefaultMax(order, i, chosen, s, max_score) ==
    IF i > Len(order) THEN chosen
    ELSE IF order[i] = chosen THEN chosen
    ELSE IF Get(s, order[i], max_score) >= max_score - 1 THEN order[i]
    ELSE NearTie_DefaultMax(order, i + 1, chosen, s, max_score)

\* the near-tie loop over section_order, delta = 1
RECURSIVE NearTie(_, _, _, _, _)
NearTie(order, i, chosen, s, max_score) ==
    IF i > Len(order) THEN chosen
    ELSE IF order[i] = chosen THEN chosen
    ELSE IF Get(s, order[i], -999) >= max_score - 1 THEN order[i]
    ELSE NearTie(order, i + 1, chosen, s, max_score)

\* faulty variant: lines 276-294 are replaced by max(scores, key=scores.get),
\* the first maximal label in the dict's order
ChooseByOrderIn_FirstMax(ks, s, section) == CandsIn(ks, s)[1]

\* lines 272-294: the label chosen before the postfixes, the dict being
\* iterated in the order ks
ChooseByOrderIn(ks, s, section) ==
    LET order == SECTION_TIE_ORDER(section)
        cands == CandsIn(ks, s)
        first == IF Len(cands) > 1 THEN TieBreak(cands, order) ELSE cands[1]
    IN  NearTie(order, 1, first, s, MaxScore(s))

\* lines 272-294, for the dict _score_sentence builds
ChooseByOrder(s, section) == ChooseByOrderIn(KeyOrder(s), s, section)

\* faulty variant: the postfix of line 299 runs before the postfix of line 297
Postfix_ResultFirst(chosen, f) ==
    LET c1 == IF chosen = "Technique"
                 /\ (f.has_res_summary \/ f.has_res_verb_cues \/ f.has_res_stats)
              THEN (IF f.section \notin {"DISCUSSION", "INTRO", "ABSTRACT"}
                    THEN "Result" ELSE "Conclusion")
              ELSE chosen
        c2 == IF c1 = "Technique" /\ f.has_analysis_test THEN "Analysis" ELSE c1
        c3 == IF c2 = "OTHER" /\ f.has_experiment_ops THEN "Experiment" ELSE c2
    IN  IF c3 = "Dataset" /\ f.has_significance THEN "Result" ELSE c3

\* faulty variant: the postfix of lines 303-304 is missing
Postfix_NoDatasetFix(chosen, f) ==
    LET c1 == IF chosen = "Technique" /\ f.has_analysis_test THEN "Analysis" ELSE chosen
        c2 == IF c1 = "Technique"
                 /\ (f.has_res_summary \/ f.has_res_verb_cues \/ f.has_res_stats)
              THEN (IF f.section \notin {"DISCUSSION", "INTRO", "ABSTRACT"}
                    THEN "Result" ELSE "Conclusion")
              ELSE c1
    IN  IF c2 = "OTHER" /\ f.has_experiment_ops THEN "Experiment" ELSE c2

\* faulty variant: line 299 tests the label line 298 has just assigned
PostfixTrace_ChainedTrigger(chosen, f) ==
    LET c1 == IF chosen = "Technique" /\ f.has_analysis_test THEN "Analysis" ELSE chosen
        c2 == IF c1 = "Analysis"
                 /\ (f.has_res_summary \/ f.has_res_verb_cues \/ f.has_res_stats)
              THEN (IF f.section \notin {"DISCUSSION", "INTRO", "ABSTRACT"}
                    THEN "Result" ELSE "Conclusion")
              ELSE c1
        c3 == IF c2 = "OTHER" /\ f.has_experiment_ops THEN "Experiment" ELSE c2
        c4 == IF c3 = "Dataset" /\ f.has_significance THEN "Result" ELSE c3
    IN  <<chosen, c1, c2, c3, c4>>

\* lines 297-304: the value of chosen before the postfixes and after each of
\* the four, in textual order
PostfixTrace(chosen, f) ==
    LET c1 == IF chosen = "Technique" /\ f.has_analysis_test THEN "Analysis" ELSE chosen
        c2 == IF c1 = "Technique"
                 /\ (f.has_res_summary \/ f.has_res_verb_cues \/ f.has_res_stats)
              THEN (IF f.section \notin {"DISCUSSION", "INTRO", "ABSTRACT"}
                    THEN "Result" ELSE "Conclusion")
              ELSE c1
        c3 == IF c2 = "OTHER" /\ f.has_experiment_ops THEN "Experiment" ELSE c2
        c4 == IF c3 = "Dataset" /\ f.has_significance THEN "Result" ELSE c3
    IN  <<chosen, c1, c2, c3, c4>>

\* lines 297-306: the four postfixes, return chosen
Postfix(chosen, f) == PostfixTrace(chosen, f)[5]

\* faulty variant: the REFERENCES test of line 267 is missing
EarlyReturn_IgnoresReferences(f, had_matches) == ~had_matches

\* faulty variant: the "not had_matches" test of line 267 is missing
EarlyReturn_IgnoresNoMatches(f, had_matches) == f.section = "REFERENCES"

\* faulty variant: line 267 tests had_matches instead of its negation
EarlyReturn_HadMatches(f, had_matches) == f.section = "REFERENCES" \/ had_matches

\* lines 267-268
EarlyReturn(f, had_matches) == f.section = "REFERENCES" \/ ~had_matches

\* faulty variant: line 268 returns OTHER in every section
ResolveLabel_NoResultsOverride(s, f, had_matches) ==
    IF EarlyReturn(f, had_matches) THEN "OTHER"
    ELSE IF DOMAIN s = {} THEN "OTHER"
    ELSE Postfix(ChooseByOrder(s, f.section), f)

\* _resolve_label(scores, flags, had_matches)
ResolveLabel(s, f, had_matches) ==
    IF EarlyReturn(f, had_matches)
    THEN (IF f.section # "RESULTS" THEN "OTHER" ELSE "Result")
    ELSE IF DOMAIN s = {} THEN "OTHER"
    ELSE Postfix(ChooseByOrder(s, f.section), f)

(***************************************************************************)
(* The safeguards of label_items                                           *)
(***************************************************************************)
\* faulty variant: the safeguard of lines 335-336 is missing
RefFilter_Skipped(text, lab) == lab

\* lines 335-336
RefFilter(text, lab) == IF LooksLikeReference(text) THEN "OTHER" ELSE lab

\* k.startswith("INF_CIT_") or k in {"INF_CITATION","INF_CIT_STRUCT"}
IsCitationKey(key) ==
    StartsWith(key, CIT_RULE_PREFIX) \/ key \in {INF_CITATION, INF_CIT_STRUCT}

\* sum(v for k, v in hits.items() if k in keys)
RECURSIVE SumHits(_, _)
SumHits(h, keys) ==
    IF keys = {} THEN 0
    ELSE LET key == CHOOSE x \in keys : TRUE
         IN  h[key] + SumHits(h, keys \ {key})

\* faulty variant: line 338 tests has_citation instead of its negation
SoftFilter_InvertedCitation(has_citation, soft, h, lab) ==
    IF has_citation /\ soft /\ lab = "Input Fact"
    THEN LET non_cit_hits == SumHits(h, {x \in DOMAIN h : ~IsCitationKey(x)})
             cit_hits == SumHits(h, {x \in DOMAIN h : IsCitationKey(x)})
         IN  IF cit_hits > 0 /\ non_cit_hits = 0 THEN "OTHER" ELSE lab
    ELSE lab

\* lines 338-344
SoftFilter(has_citation, soft, h, lab) ==
    IF (~has_citation) /\ soft /\ lab = "Input Fact"
    THEN LET non_cit_hits == SumHits(h, {x \in DOMAIN h : ~IsCitationKey(x)})
             cit_hits == SumHits(h, {x \in DOMAIN h : IsCitationKey(x)})
         IN  IF cit_hits > 0 /\ non_cit_hits = 0 THEN "OTHER" ELSE lab
    ELSE lab

(***************************************************************************)
(* Inputs of the labeller                                                  *)
(***************************************************************************)
\* The rule specification is configuration: these are the identifiers it may
\* define.  Every flag family of _compute_flags, every role prefix, the
\* citation family and one unknown prefix occur.
SurfaceRules ==
    << <<"INF", "CIT", "BRACK", "NUM">>, <<"INF", "CITATION">>, <<"INF", "SURFACE">>,
       <<"HYP", "SURFACE">>, <<"EXP", "SURFACE">>, <<"TEC", "USING">>,
       <<"RES", "STATS">>, <<"RES", "VERB", "CUES">>, <<"DATA", "SURFACE">>,
       <<"ANA", "SURFACE">>,
       <<"RES", "ABS", "HEAD", "RESULTS">>, <<"CONC", "ABS", "HEAD">>,
       <<"MISC", "NOTE">> >>

\* identifiers of the depmatcher section of the rule specification
DepRules ==
    << <<"ANA", "DEP">>, <<"HYP", "THAT">>, <<"INF", "CIT", "DOI">> >>

\* nondecreasing index sequences of length n over 1..m: one per multiset
SortedSeqs(m, n) ==
    {q \in [1..n -> 1..m] : \A i \in 1..(n - 1) : q[i] <= q[i + 1]}

\* the matches of one unit: indices into SurfaceRules, then into DepRules
MatchLists == UNION {SortedSeqs(Len(SurfaceRules) + Len(DepRules), n) : n \in 0..MaxHits}

\* what matcher(doc_sent) yields
SurfaceOf(q) ==
    LET sel == SelectSeq(q, LAMBDA o : o <= Len(SurfaceRules))
    IN  [i \in 1..Len(sel) |-> SurfaceRules[sel[i]]]

\* what depmatcher(doc_sent) yields
DepOf(q) ==
    LET sel == SelectSeq(q, LAMBDA o : o > Len(SurfaceRules))
    IN  [i \in 1..Len(sel) |-> DepRules[sel[i] - Len(SurfaceRules)]]

\* Unit texts, as token sequences: no lexical signal (a year and one percent
\* sign alone), reference-looking by year and page range, reference-looking
\* by a bibliographic marker, a significance word (with a page range alone),
\* two percent signs, both, and all three.  Empty texts never reach
\* label_items: tei_iter_sentences skips them.
Texts ==
    { <<"findings", "2019", "%">>,
      <<"2019", "12-34">>,
      <<"vol.", "12">>,
      <<"significant", "12-34">>,
      <<"%", "%">>,
      <<"significantly", "%", "%">>,
      <<"issn", "significance", "%", "%">> }

Items == [text : Texts, section_hint : Sections, has_citation : BOOLEAN]

NoLabel == "-"

(***************************************************************************)
(* label_items: the body of the loop, one unit                             *)
(***************************************************************************)
MergeIdle ==
    /\ records = << >> /\ merged = << >> /\ k = 0
    /\ mpc = "idle" /\ pass = 0 /\ units = << >>

\* label_items calls _resolve_label on the dict _score_sentence built from LABELS
CallIdle == rl_keys = LABELS /\ rl_had_matches = FALSE /\ rl_chosen = NoLabel

UnionIdle == boxes = << >> /\ hull = << >> /\ upc = "idle"

ItemsIdle == items = << >> /\ idx = 0 /\ out = << >>

WalkIdle ==
    /\ tei = << >> /\ tpos = 0 /\ current_imrad_section = "OTHER"
    /\ yielded = << >> /\ impl = "-"

SpacyIdle == sm_cur = << >> /\ sm_merged = << >> /\ sm_k = 0 /\ sm_pc = "idle"

Init ==
    /\ it \in Items
    /\ \E q \in MatchLists : surfaceMatches = SurfaceOf(q) /\ depMatches = DepOf(q)
    /\ citation_soft \in BOOLEAN
    /\ pc = "start"
    /\ scores = EmptyDict
    /\ hits = EmptyDict
    /\ flags = NoFlags
    /\ label = NoLabel
    /\ items = << [unit |-> it, surface |-> surfaceMatches, dep |-> depMatches] >>
    /\ idx = 0
    /\ out = << >>
    /\ MergeIdle
    /\ CallIdle
    /\ UnionIdle
    /\ WalkIdle
    /\ SpacyIdle

\* faulty variant: hits is created once before the loop, so the counts of the
\* earlier units stay in it
DoScore_SharedHits ==
    /\ pc = "start"
    /\ LET sh == ScoreSentence(it.section_hint, surfaceMatches, depMatches)
       IN  /\ scores' = sh[1]
           /\ hits' = [x \in DOMAIN hits \cup DOMAIN sh[2] |->
                          Get(hits, x, 0) + Get(sh[2], x, 0)]
    /\ pc' = "scored"
    /\ UNCHANGED <<it, surfaceMatches, depMatches, citation_soft, flags, label>>
    /\ UNCHANGED <<mergeVars, callVars, unionVars, itemVars, walkVars, spacyVars>>

\* line 322: scores, hits = _score_sentence(doc, section_hint, matcher, depmatcher)
DoScore ==
    /\ pc = "start"
    /\ LET sh == ScoreSentence(it.section_hint, surfaceMatches, depMatches)
       IN  scores' = sh[1] /\ hits' = sh[2]
    /\ pc' = "scored"
    /\ UNCHANGED <<it, surfaceMatches, depMatches, citation_soft, flags, label>>
    /\ UNCHANGED <<mergeVars, callVars, unionVars, itemVars, walkVars, spacyVars>>

\* faulty variant: line 326 adds the rule bonus instead of the structural bonus
StructBonusScores_RuleBonus(s, has_citation) ==
    IF has_citation THEN AddTo(s, "Input Fact", CIT_RULE_BONUS) ELSE s

\* lines 325-327: structural citation bonus
StructBonusScores(s, has_citation) ==
    IF has_citation THEN AddTo(s, "Input Fact", CIT_STRUCT_BONUS) ELSE s

StructBonusHits(h, has_citation) ==
    IF has_citation THEN SetKey(h, INF_CIT_STRUCT, Get(h, INF_CIT_STRUCT, 0) + 1) ELSE h

DoStructBonus ==
    /\ pc = "scored"
    /\ scores' = StructBonusScores(scores, it.has_citation)
    /\ hits' = StructBonusHits(hits, it.has_citation)
    /\ pc' = "bonus"
    /\ UNCHANGED <<it, surfaceMatches, depMatches, citation_soft, flags, label>>
    /\ UNCHANGED <<mergeVars, callVars, unionVars, itemVars, walkVars, spacyVars>>

\* lines 330-331: flags = _compute_flags(...); scores = _apply_boosts(scores, flags)
DoBoosts ==
    /\ pc = "bonus"
    /\ flags' = ComputeFlags(it.text, hits, it.section_hint, it.has_citation)
    /\ scores' = ApplyBoosts(scores, flags')
    /\ pc' = "boosted"
    /\ UNCHANGED <<it, surfaceMatches, depMatches, citation_soft, hits, label>>
    /\ UNCHANGED <<mergeVars, callVars, unionVars, itemVars, walkVars, spacyVars>>

\* line 332: label = _resolve_label(scores, flags, had_matches=bool(hits))
DoResolve ==
    /\ pc = "boosted"
    /\ label' = ResolveLabel(scores, flags, DOMAIN hits # {})
    /\ pc' = "resolved"
    /\ UNCHANGED <<it, surfaceMatches, depMatches, citation_soft, scores, hits, flags>>
    /\ UNCHANGED <<mergeVars, callVars, unionVars, itemVars, walkVars, spacyVars>>

\* lines 335-336
DoRefFilter ==
    /\ pc = "resolved"
    /\ label' = RefFilter(it.text, label)
    /\ pc' = "reffiltered"
    /\ UNCHANGED <<it, surfaceMatches, depMatches, citation_soft, scores, hits, flags>>
    /\ UNCHANGED <<mergeVars, callVars, unionVars, itemVars, walkVars, spacyVars>>

\* lines 346-357: the record appended to out (page, bbox, is_caption and
\* caption_type are copied from the item like section and text)
OutRecord(i, item, lab, s, h) ==
    [idx |-> i, section |-> item.section_hint, label |-> lab, text |-> item.text,
     scores |-> s, matches |-> h]

\* lines 338-357: the soft filter, then the record is appended to out
DoSoftFilter ==
    /\ pc = "reffiltered"
    /\ label' = SoftFilter(it.has_citation, citation_soft, hits, label)
    /\ out' = Append(out, OutRecord(idx, it, label', scores, hits))
    /\ pc' = "done"
    /\ UNCHANGED <<it, surfaceMatches, depMatches, citation_soft, scores, hits, flags>>
    /\ UNCHANGED <<items, idx>>
    /\ UNCHANGED <<mergeVars, callVars, unionVars, walkVars, spacyVars>>

Next ==
    \/ DoScore
    \/ DoStructBonus
    \/ DoBoosts
    \/ DoResolve
    \/ DoRefFilter
    \/ DoSoftFilter

Spec == Init /\ [][Next]_vars

\* lines 320-344: the body of label_items' loop as one function of the unit,
\* of what the two matchers return for it and of citation_soft
LabelUnit(item, surf, dep, soft) ==
    LET sh == ScoreSentence(item.section_hint, surf, dep)
        s1 == StructBonusScores(sh[1], item.has_citation)
        h1 == StructBonusHits(sh[2], item.has_citation)
        f  == ComputeFlags(item.text, h1, item.section_hint, item.has_citation)
        s2 == ApplyBoosts(s1, f)
        l0 == ResolveLabel(s2, f, DOMAIN h1 # {})
        l1 == RefFilter(item.text, l0)
        l2 == SoftFilter(item.has_citation, soft, h1, l1)
    IN  [scores |-> s2, hits |-> h1, flags |-> f, label |-> l2]

(***************************************************************************)
(* label_items: the loop over a list of units                              *)
(***************************************************************************)
ItemTexts == { <<"findings", "2019", "%">>, <<"vol.", "12">> }

ItemSections == {"METHODS", "RESULTS"}

\* has_citation and what matcher and depmatcher return: nothing, a citation
\* rule, a technique rule with an analysis relation, a structural citation
ItemEvidence ==
    { <<FALSE, << >>, << >> >>,
      <<FALSE, << <<"INF", "CIT", "BRACK", "NUM">> >>, << >> >>,
      <<FALSE, << <<"TEC", "USING">> >>, << <<"ANA", "DEP">> >> >>,
      <<TRUE, << >>, << >> >> }

\* an element of items, with what the two matchers return on its text
ItemUnits ==
    {[unit |-> [text |-> t, section_hint |-> sec, has_citation |-> e[1]],
      surface |-> e[2], dep |-> e[3]] :
        t \in ItemTexts, sec \in ItemSections, e \in ItemEvidence}

\* lines 312-316: label_items is called, out = []
InitItems ==
    /\ items \in UNION {[1..n -> ItemUnits] : n \in 0..MaxItems}
    /\ citation_soft \in BOOLEAN
    /\ idx = 0
    /\ out = << >>
    /\ pc = "loop"
    /\ it = [text |-> <<"findings">>, section_hint |-> "OTHER", has_citation |-> FALSE]
    /\ surfaceMatches = << >> /\ depMatches = << >>
    /\ scores = EmptyDict
    /\ hits = EmptyDict
    /\ flags = NoFlags
    /\ label = NoLabel
    /\ MergeIdle
    /\ CallIdle
    /\ UnionIdle
    /\ WalkIdle
    /\ SpacyIdle

\* line 317: "for i, it in enumerate(items)" takes the next item; the locals
\* of the previous iteration keep their values until they are assigned again
FetchItem ==
    /\ pc \in {"loop", "done"}
    /\ LET n == IF pc = "loop" THEN 0 ELSE idx + 1
       IN  /\ n < Len(items)
           /\ idx' = n
           /\ it' = items[n + 1].unit
           /\ surfaceMatches' = items[n + 1].surface
           /\ depMatches' = items[n + 1].dep
    /\ pc' = "start"
    /\ UNCHANGED <<citation_soft, scores, hits, flags, label, items, out>>
    /\ UNCHANGED <<mergeVars, callVars, unionVars, walkVars, spacyVars>>

\* lines 317 and 358: the items are exhausted, return out
ReturnOut ==
    /\ pc \in {"loop", "done"}
    /\ (IF pc = "loop" THEN 0 ELSE idx + 1) >= Len(items)
    /\ pc' = "end"
    /\ UNCHANGED <<it, surfaceMatches, depMatches, citation_soft, scores, hits, flags, label>>
    /\ UNCHANGED <<itemVars, mergeVars, callVars, unionVars, walkVars, spacyVars>>

NextItems ==
    \/ FetchItem
    \/ DoScore
    \/ DoStructBonus
    \/ DoBoosts
    \/ DoResolve
    \/ DoRefFilter
    \/ DoSoftFilter
    \/ ReturnOut

SpecItems == InitItems /\ [][NextItems]_vars

(***************************************************************************)
(* imrad_grobid_pipeline.merge_adjacent                                    *)
(***************************************************************************)
MergeLabels == {"Result", "OTHER"}
Pages == {2, 3}
UnitTexts == { <<"findings">>, <<"2019">> }
\* bounding rectangles [x0, y0, x1, y1]
BBoxes == { <<1, 1, 2, 2>>, <<0, 2, 3, 3>> }

MergeUnits == [label : MergeLabels, page : Pages, text : UnitTexts, bbox : BBoxes]

Min(a, b) == IF a <= b THEN a ELSE b
Max(a, b) == IF a >= b THEN a ELSE b

\* faulty variant: line 385 takes the larger y0
UnionBBox_MaxY0(a, b) == <<Min(a[1], b[1]), Max(a[2], b[2]), Max(a[3], b[3]), Max(a[4], b[4])>>

\* faulty variant: line 386 keeps cur's x1 instead of taking the maximum
UnionBBox_KeepsX1(a, b) == <<Min(a[1], b[1]), Min(a[2], b[2]), a[3], Max(a[4], b[4])>>

\* lines 385-387: the union of two rectangles
UnionBBox(a, b) == <<Min(a[1], b[1]), Min(a[2], b[2]), Max(a[3], b[3]), Max(a[4], b[4])>>

\* line 384: cur["text"] += " " + r["text"]
JoinText(a, b) == a \o <<" ">> \o b

\* faulty variant: line 383 compares the labels only
SameSpan_LabelOnly(r, cur) == r.label = cur.label

\* line 383
SameSpan(r, cur) == r.label = cur.label /\ r.page = cur.page

\* lines 384-387: cur after absorbing r
Absorb(cur, r) ==
    [cur EXCEPT !.text = JoinText(cur.text, r.text), !.bbox = UnionBBox(cur.bbox, r.bbox)]

\* faulty variant: line 389 runs after the if as well (the else is lost)
MergeOne_AlwaysAppends(m, r) ==
    LET cur == m[Len(m)]
    IN  IF SameSpan(r, cur)
        THEN Append([m EXCEPT ![Len(m)] = Absorb(cur, r)], r)
        ELSE Append(m, r)

\* lines 382-389: one iteration of the loop, on the list merged
MergeOne(m, r) ==
    LET cur == m[Len(m)]
    IN  IF SameSpan(r, cur)
        THEN [m EXCEPT ![Len(m)] = Absorb(cur, r)]
        ELSE Append(m, r)

LabelIdle ==
    /\ it = [text |-> <<"findings">>, section_hint |-> "OTHER", has_citation |-> FALSE]
    /\ surfaceMatches = << >> /\ depMatches = << >>
    /\ citation_soft = FALSE
    /\ pc = "idle"
    /\ scores = EmptyDict /\ hits = EmptyDict /\ flags = NoFlags /\ label = NoLabel

InitMerge ==
    /\ units \in UNION {[1..n -> MergeUnits] : n \in 0..MaxRecs}
    /\ records = units
    /\ merged = << >>
    /\ k = 0
    /\ mpc = "call"
    /\ pass = 1
    /\ LabelIdle
    /\ CallIdle
    /\ UnionIdle
    /\ ItemsIdle
    /\ WalkIdle
    /\ SpacyIdle

\* line 379: if not records: return records
MergeEmpty ==
    /\ mpc = "call"
    /\ records = << >>
    /\ merged' = records
    /\ mpc' = "returned"
    /\ UNCHANGED <<records, k, pass, units>>
    /\ UNCHANGED <<labelVars, callVars, unionVars, itemVars, walkVars, spacyVars>>

\* line 380: merged = [records[0].copy()]
MergeFirst ==
    /\ mpc = "call"
    /\ records # << >>
    /\ merged' = <<records[1]>>
    /\ k' = 2
    /\ mpc' = "loop"
    /\ UNCHANGED <<records, pass, units>>
    /\ UNCHANGED <<labelVars, callVars, unionVars, itemVars, walkVars, spacyVars>>

\* lines 381-389: for r in records[1:]
MergeStep ==
    /\ mpc = "loop"
    /\ k <= Len(records)
    /\ merged' = MergeOne(merged, records[k])
    /\ k' = k + 1
    /\ UNCHANGED <<records, mpc, pass, units>>
    /\ UNCHANGED <<labelVars, callVars, unionVars, itemVars, walkVars, spacyVars>>

\* line 390: return merged
MergeReturn ==
    /\ mpc = "loop"
    /\ k > Len(records)
    /\ mpc' = "returned"
    /\ UNCHANGED <<records, merged, k, pass, units>>
    /\ UNCHANGED <<labelVars, callVars, unionVars, itemVars, walkVars, spacyVars>>

\* the spans are handed to merge_adjacent again
MergeAgain ==
    /\ mpc = "returned"
    /\ pass = 1
    /\ records' = merged
    /\ merged' = << >>
    /\ k' = 0
    /\ mpc' = "call"
    /\ pass' = 2
    /\ UNCHANGED units
    /\ UNCHANGED <<labelVars, callVars, unionVars, itemVars, walkVars, spacyVars>>

NextMerge ==
    \/ MergeEmpty
    \/ MergeFirst
    \/ MergeStep
    \/ MergeReturn
    \/ MergeAgain

SpecMerge == InitMerge /\ [][NextMerge]_vars

(***************************************************************************)
(* imrad_spacy_matchers.merge_adjacent, called on the list the pipeline's  *)
(* merge_adjacent was called on                                            *)
(***************************************************************************)
\* line 364
SpacySameSpan(r, c) == r["label"] = c["label"] /\ r["page"] = c["page"]

\* lines 365-369: cur after the text is extended and the bbox replaced
SpacyAbsorb(c, r) ==
    LET x0 == Min(c["bbox"][1], r["bbox"][1])
        y0 == Min(c["bbox"][2], r["bbox"][2])
        x1 == Max(c["bbox"][3], r["bbox"][3])
        y1 == Max(c["bbox"][4], r["bbox"][4])
    IN  [c EXCEPT !["text"] = c["text"] \o <<" ">> \o r["text"],
                  !["bbox"] = <<x0, y0, x1, y1>>]

\* both functions are about to be called on the same list; the spans they
\* build are copies (records[0].copy(), r.copy(), dict(records[0]), dict(r)),
\* so the assignments to a span's text and bbox do not reach the records
InitBoth ==
    /\ units \in UNION {[1..n -> MergeUnits] : n \in 0..MaxRecs}
    /\ records = units
    /\ merged = << >>
    /\ k = 0
    /\ mpc = "call"
    /\ pass = 1
    /\ sm_cur = << >>
    /\ sm_merged = << >>
    /\ sm_k = 0
    /\ sm_pc = "call"
    /\ LabelIdle
    /\ CallIdle
    /\ UnionIdle
    /\ ItemsIdle
    /\ WalkIdle

\* line 359: if not records: return records
SpacyEmpty ==
    /\ sm_pc = "call" /\ mpc = "returned"
    /\ records = << >>
    /\ sm_merged' = records
    /\ sm_pc' = "returned"
    /\ UNCHANGED <<sm_cur, sm_k>>
    /\ UNCHANGED <<labelVars, mergeVars, callVars, unionVars, itemVars, walkVars>>

\* lines 360-361: merged = []; cur = dict(records[0])
SpacyFirst ==
    /\ sm_pc = "call" /\ mpc = "returned"
    /\ records # << >>
    /\ sm_merged' = << >>
    /\ sm_cur' = records[1]
    /\ sm_k' = 2
    /\ sm_pc' = "loop"
    /\ UNCHANGED <<labelVars, mergeVars, callVars, unionVars, itemVars, walkVars>>

\* lines 362-371: for r in records[1:]
SpacyStep ==
    /\ sm_pc = "loop"
    /\ sm_k <= Len(records)
    /\ LET r == records[sm_k]
       IN  IF SpacySameSpan(r, sm_cur)
           THEN sm_cur' = SpacyAbsorb(sm_cur, r) /\ sm_merged' = sm_merged
           ELSE sm_merged' = Append(sm_merged, sm_cur) /\ sm_cur' = r
    /\ sm_k' = sm_k + 1
    /\ UNCHANGED sm_pc
    /\ UNCHANGED <<labelVars, mergeVars, callVars, unionVars, itemVars, walkVars>>

\* faulty variant: line 372 is missing, the last span is never appended
SpacyReturn_NoFinalAppend ==
    /\ sm_pc = "loop"
    /\ sm_k > Len(records)
    /\ sm_pc' = "returned"
    /\ UNCHANGED <<sm_cur, sm_merged, sm_k>>
    /\ UNCHANGED <<labelVars, mergeVars, callVars, unionVars, itemVars, walkVars>>

\* lines 372-373: merged.append(cur); return merged
SpacyReturn ==
    /\ sm_pc = "loop"
    /\ sm_k > Len(records)
    /\ sm_merged' = Append(sm_merged, sm_cur)
    /\ sm_pc' = "returned"
    /\ UNCHANGED <<sm_cur, sm_k>>
    /\ UNCHANGED <<labelVars, mergeVars, callVars, unionVars, itemVars, walkVars>>

NextBoth ==
    \/ MergeEmpty
    \/ MergeFirst
    \/ MergeStep
    \/ MergeReturn
    \/ SpacyEmpty
    \/ SpacyFirst
    \/ SpacyStep
    \/ SpacyReturn

SpecBoth == InitBoth /\ [][NextBoth]_vars

(***************************************************************************)
(* The rectangle union of merge_adjacent, on three rectangles              *)
(***************************************************************************)
\* bbox values [x0, y0, x1, y1] over the coordinates 0..MaxCoord
Rects == [1..4 -> 0..MaxCoord]

\* the orders in which three rectangles can be handed to the union
Orders3 == {p \in [1..3 -> 1..3] : \A i, j \in 1..3 : i # j => p[i] # p[j]}

InitUnion ==
    /\ boxes \in [1..3 -> Rects]
    /\ hull = << >>
    /\ upc = "start"
    /\ LabelIdle
    /\ MergeIdle
    /\ CallIdle
    /\ ItemsIdle
    /\ WalkIdle
    /\ SpacyIdle

\* cur absorbs the records one by one, as the loop of merge_adjacent does:
\* (p1 + p2) + p3
UnionLeft ==
    /\ upc = "start"
    /\ \E p \in Orders3 :
           hull' = UnionBBox(UnionBBox(boxes[p[1]], boxes[p[2]]), boxes[p[3]])
    /\ upc' = "done"
    /\ UNCHANGED boxes
    /\ UNCHANGED <<labelVars, mergeVars, callVars, itemVars, walkVars, spacyVars>>

\* the last two are merged first, then absorbed by the first: p1 + (p2 + p3)
UnionRight ==
    /\ upc = "start"
    /\ \E p \in Orders3 :
           hull' = UnionBBox(boxes[p[1]], UnionBBox(boxes[p[2]], boxes[p[3]]))
    /\ upc' = "done"
    /\ UNCHANGED boxes
    /\ UNCHANGED <<labelVars, mergeVars, callVars, itemVars, walkVars, spacyVars>>

NextUnion ==
    \/ UnionLeft
    \/ UnionRight

SpecUnion == InitUnion /\ [][NextUnion]_vars

(***************************************************************************)
(* _resolve_label as a function of its arguments                           *)
(***************************************************************************)
\* the points hits and boosts give: x to one label, y to another
HitPoints ==
    {[lab \in LabelSet |-> IF lab = a THEN x ELSE IF lab = b THEN y ELSE 0] :
        a \in LabelSet, b \in LabelSet, x \in 0..MaxPts, y \in 0..MaxPts}

\* the rules behind the flags _resolve_label reads
FlagRuleSets ==
    { {}, { <<"ANA", "SURFACE">> }, { <<"RES", "VERB", "CUES">> },
      { <<"ANA", "SURFACE">>, <<"RES", "VERB", "CUES">> },
      { <<"EXP", "SURFACE">> }, { <<"RES", "STATS">> }, { <<"DATA", "SURFACE">> } }

\* a text without and a text with a significance word
CallTexts == { <<"findings">>, <<"significant">> }

\* the flag records _compute_flags builds for these hits and texts
FlagRecords ==
    {ComputeFlags(t, [r \in rs |-> 1], sec, FALSE) :
        t \in CallTexts, rs \in FlagRuleSets, sec \in Sections}

\* the label variables that only label_items uses
UnitIdle ==
    /\ it = [text |-> <<"findings">>, section_hint |-> "OTHER", has_citation |-> FALSE]
    /\ surfaceMatches = << >> /\ depMatches = << >>
    /\ citation_soft = FALSE
    /\ hits = EmptyDict

\* _resolve_label(scores, flags, had_matches) is called: scores holds the
\* section priors plus the points of hits and boosts, or is empty
InitResolve ==
    /\ flags \in FlagRecords
    /\ scores \in {AddPriors(pts, SECTION_PRIORS(flags.section), 1) : pts \in HitPoints}
                    \cup {EmptyDict}
    /\ rl_keys = KeyOrder(scores)
    /\ rl_had_matches \in BOOLEAN
    /\ rl_chosen = NoLabel
    /\ label = NoLabel
    /\ pc = "call"
    /\ UnitIdle
    /\ MergeIdle
    /\ UnionIdle
    /\ ItemsIdle
    /\ WalkIdle
    /\ SpacyIdle

\* lines 267-268
ResolveEarly ==
    /\ pc = "call"
    /\ EarlyReturn(flags, rl_had_matches)
    /\ label' = (IF flags.section # "RESULTS" THEN "OTHER" ELSE "Result")
    /\ pc' = "returned"
    /\ UNCHANGED <<it, surfaceMatches, depMatches, citation_soft, scores, hits, flags>>
    /\ UNCHANGED <<mergeVars, callVars, unionVars, itemVars, walkVars, spacyVars>>

\* lines 269-270
ResolveEmpty ==
    /\ pc = "call"
    /\ ~EarlyReturn(flags, rl_had_matches)
    /\ DOMAIN scores = {}
    /\ label' = "OTHER"
    /\ pc' = "returned"
    /\ UNCHANGED <<it, surfaceMatches, depMatches, citation_soft, scores, hits, flags>>
    /\ UNCHANGED <<mergeVars, callVars, unionVars, itemVars, walkVars, spacyVars>>

\* lines 272-294: max, candidates, tie-break, near-tie promotion
ResolveChoose ==
    /\ pc = "call"
    /\ ~EarlyReturn(flags, rl_had_matches)
    /\ DOMAIN scores # {}
    /\ rl_chosen' = ChooseByOrderIn(rl_keys, scores, flags.section)
    /\ pc' = "chosen"
    /\ UNCHANGED <<it, surfaceMatches, depMatches, citation_soft, scores, hits, flags, label>>
    /\ UNCHANGED <<rl_keys, rl_had_matches>>
    /\ UNCHANGED <<mergeVars, unionVars, itemVars, walkVars, spacyVars>>

\* lines 296-306: the postfixes, return chosen
ResolvePostfix ==
    /\ pc = "chosen"
    /\ label' = Postfix(rl_chosen, flags)
    /\ pc' = "returned"
    /\ UNCHANGED <<it, surfaceMatches, depMatches, citation_soft, scores, hits, flags>>
    /\ UNCHANGED <<mergeVars, callVars, unionVars, itemVars, walkVars, spacyVars>>

NextResolve ==
    \/ ResolveEarly
    \/ ResolveEmpty
    \/ ResolveChoose
    \/ ResolvePostfix

SpecResolve == InitResolve /\ [][NextResolve]_vars

(***************************************************************************)
(* _resolve_label on a dict whose keys were inserted in any order          *)
(***************************************************************************)
\* every order in which a dict can hold the 8 labels
KeyOrders == {[i \in 1..Len(LABELS) |-> p[LABELS[i]]] : p \in Permutations(LabelSet)}

\* sets of labels that hits and boosts lift to the same score
TieSets == { {}, {"Input Fact", "Hypothesis"}, {"Dataset", "Analysis", "Conclusion"} }

TiePoints == {[lab \in LabelSet |-> IF lab \in T THEN 2 ELSE 0] : T \in TieSets}

\* a section with its own tie order and one that falls back to WEIGHTS["tie_order"]
TieSections == {"METHODS", "OTHER"}

InitKeyOrder ==
    /\ flags \in {ComputeFlags(<<"findings">>, EmptyDict, sec, FALSE) : sec \in TieSections}
    /\ scores \in {AddPriors(pts, SECTION_PRIORS(flags.section), 1) : pts \in TiePoints}
    /\ rl_keys \in KeyOrders
    /\ rl_had_matches \in BOOLEAN
    /\ rl_chosen = NoLabel
    /\ label = NoLabel
    /\ pc = "call"
    /\ UnitIdle
    /\ MergeIdle
    /\ UnionIdle
    /\ ItemsIdle
    /\ WalkIdle
    /\ SpacyIdle

NextKeyOrder ==
    \/ ResolveEarly
    \/ ResolveChoose
    \/ ResolvePostfix

SpecKeyOrder == InitKeyOrder /\ [][NextKeyOrder]_vars

(***************************************************************************)
(* tei_iter_sentences (parse_pdf_grobid and imrad_grobid_pipeline)         *)
(***************************************************************************)
\* A text is the sequence of its words (maximal runs of letters or digits),
\* lower-cased, "&" being a word of its own; the stripped empty string is << >>.
\* An element is [path, text, thead]: the tags from an ancestor down to the
\* element itself (a div with type="abstract" is written "div@abstract"), its
\* stripped text, and for a table the stripped texts of its head children
\* (el.find takes the first; NoHead when there is none).
NoHead == << >>

Numerals == {"1", "2", "3", "ii", "iv"}

\* _clean_head_text: a leading number or roman numeral followed by white
\* space is dropped, "&" becomes "and"
CleanHeadText(txt) ==
    LET t == IF Len(txt) > 1 /\ txt[1] \in Numerals THEN Tail(txt) ELSE txt
    IN  [i \in 1..Len(t) |-> IF t[i] = "&" THEN "and" ELSE t[i]]

\* re.search of one of the words of W between non-letters
HasWord(t, W) == \E i \in 1..Len(t) : t[i] \in W

\* re.search of the words of ph in a row
HasPhrase(t, ph) ==
    \E i \in 1..Len(t) : i + Len(ph) - 1 <= Len(t) /\ SubSeq(t, i, i + Len(ph) - 1) = ph

\* map_head_to_hint: the regular expressions in the order they are tried
MapHeadToHint(head_text) ==
    LET t == CleanHeadText(head_text)
    IN  IF t = << >> THEN "OTHER"
        ELSE IF \/ HasWord(t, {"abstract", "introduction", "background"})
                \/ HasPhrase(t, <<"aims", "and", "scope">>)
             THEN "INTRO"
        ELSE IF \/ HasWord(t, {"method", "methods", "methodology", "experimental"})
                \/ HasPhrase(t, <<"study", "design">>)
                \/ HasPhrase(t, <<"statistical", "analysis">>)
             THEN "METHODS"
        ELSE IF \/ HasWord(t, {"discussion", "conclusion", "conclusions",
                               "implications", "limitations"})
                \/ HasPhrase(t, <<"concluding", "remarks">>)
             THEN "DISCUSSION"
        ELSE IF HasWord(t, {"result", "results", "findings", "outcomes"}) THEN "RESULTS"
        ELSE IF \/ HasWord(t, {"references", "bibliography"})
                \/ HasPhrase(t, <<"works", "cited">>)
             THEN "REFERENCES"
        ELSE "OTHER"

\* etree.QName(el).localname
Tag(el) == IF el.path[Len(el.path)] \in {"div@abstract", "div@summary"}
           THEN "div" ELSE el.path[Len(el.path)]

\* is_in_abstract (parse_pdf_grobid): the element or an ancestor is <abstract>
\* or a div of type abstract or summary
IsInAbstract(el) ==
    \E i \in 1..Len(el.path) : el.path[i] \in {"abstract", "div@abstract", "div@summary"}

\* section headings of the body: numbered, with "&", a subsection title, empty
HeadTexts ==
    { <<"2", "methods">>, <<"results", "&", "discussion">>, <<"study", "population">>, << >> }

\* table captions
CaptionTexts == { <<"table", "1", "summary", "of", "results">>, <<"table", "2", "baseline", "values">> }

Element(path, text, thead) == [path |-> path, text |-> text, thead |-> thead]

\* the parts of a document, each with the elements root.iter() visits for it:
\* a table is followed by its head child
Nodes ==
    {<<Element(<<"body", "div", "head">>, t, NoHead)>> : t \in HeadTexts}
    \cup {<<Element(<<"body", "div", "p", "s">>, t, NoHead)>> : t \in {<<"we", "measured">>, << >>}}
    \cup {<<Element(<<"abstract", "div", "p", "s">>, <<"we", "report">>, NoHead)>>,
          <<Element(<<"front", "div@abstract", "p", "s">>, <<"we", "report">>, NoHead)>>,
          <<Element(<<"body", "figure", "figDesc">>, <<"flow", "chart">>, NoHead)>>,
          <<Element(<<"body", "figure", "table">>, << >>, NoHead)>>}
    \cup {<<Element(<<"body", "figure", "table">>, << >>, <<c>>),
            Element(<<"body", "figure", "table", "head">>, c, NoHead)>> : c \in CaptionTexts}

\* the elements of a sequence of parts, in document order
RECURSIVE Flatten(_)
Flatten(ns) == IF ns = << >> THEN << >> ELSE Head(ns) \o Flatten(Tail(ns))

Implementations == {"parse_pdf_grobid", "imrad_grobid_pipeline"}

\* current_imrad_section = "OTHER", then the loop over root.iter()
InitWalk ==
    /\ impl \in Implementations
    /\ tei \in {Flatten(ns) : ns \in UNION {[1..n -> Nodes] : n \in 0..MaxNodes}}
    /\ tpos = 0
    /\ current_imrad_section = "OTHER"
    /\ yielded = << >>
    /\ LabelIdle
    /\ MergeIdle
    /\ CallIdle
    /\ UnionIdle
    /\ ItemsIdle
    /\ SpacyIdle

\* the unit a yield statement builds (page, bbox and has_citation left out)
Unit(text, section_hint, is_caption, caption_type) ==
    [text |-> text, section_hint |-> section_hint,
     is_caption |-> is_caption, caption_type |-> caption_type]

\* faulty variant: the tracker takes every mapped label, OTHER included
TrackHead_Always(current, head_txt) == MapHeadToHint(head_txt)

\* the head branch: label = map_head_to_hint(head_txt); the tracker changes
\* only if label != "OTHER" (IGNORE_NOISY_HEADERS is False, so
\* _should_ignore_head never holds a heading back)
TrackHead(current, head_txt) ==
    LET lab == MapHeadToHint(head_txt)
    IN  IF lab # "OTHER" THEN lab ELSE current

\* faulty variant: the sentence branch never looks at is_in_abstract
SentenceSection_TrackerOnly(im, el, current) == current

\* section_hint of a sentence: parse_pdf_grobid overrides the tracker inside
\* the abstract, imrad_grobid_pipeline does not
SentenceSection(im, el, current) ==
    IF im = "parse_pdf_grobid" /\ IsInAbstract(el) THEN "ABSTRACT" ELSE current

\* tag == "head"
WalkHead ==
    /\ tpos < Len(tei)
    /\ Tag(tei[tpos + 1]) = "head"
    /\ current_imrad_section' = TrackHead(current_imrad_section, tei[tpos + 1].text)
    /\ tpos' = tpos + 1
    /\ UNCHANGED <<tei, yielded, impl>>
    /\ UNCHANGED <<labelVars, mergeVars, callVars, unionVars, itemVars, spacyVars>>

\* tag == "s"
WalkSentence ==
    /\ tpos < Len(tei)
    /\ Tag(tei[tpos + 1]) = "s"
    /\ LET el == tei[tpos + 1]
       IN  yielded' =
               IF el.text = << >> THEN yielded
               ELSE Append(yielded,
                           Unit(el.text, SentenceSection(impl, el, current_imrad_section),
                                FALSE, ""))
    /\ tpos' = tpos + 1
    /\ UNCHANGED <<tei, current_imrad_section, impl>>
    /\ UNCHANGED <<labelVars, mergeVars, callVars, unionVars, itemVars, spacyVars>>

\* tag == "figDesc"
WalkFigDesc ==
    /\ tpos < Len(tei)
    /\ Tag(tei[tpos + 1]) = "figDesc"
    /\ LET el == tei[tpos + 1]
       IN  yielded' =
               IF el.text = << >> THEN yielded
               ELSE Append(yielded, Unit(el.text, current_imrad_section, TRUE, "Figure"))
    /\ tpos' = tpos + 1
    /\ UNCHANGED <<tei, current_imrad_section, impl>>
    /\ UNCHANGED <<labelVars, mergeVars, callVars, unionVars, itemVars, spacyVars>>

\* tag == "table": the caption is the text of the head child
WalkTable ==
    /\ tpos < Len(tei)
    /\ Tag(tei[tpos + 1]) = "table"
    /\ LET el == tei[tpos + 1]
       IN  yielded' =
               IF el.thead = NoHead \/ el.thead[1] = << >> THEN yielded
               ELSE Append(yielded, Unit(el.thead[1], current_imrad_section, TRUE, "Table"))
    /\ tpos' = tpos + 1
    /\ UNCHANGED <<tei, current_imrad_section, impl>>
    /\ UNCHANGED <<labelVars, mergeVars, callVars, unionVars, itemVars, spacyVars>>

NextWalk ==
    \/ WalkHead
    \/ WalkSentence
    \/ WalkFigDesc
    \/ WalkTable

SpecWalk == InitWalk /\ [][NextWalk]_vars

(***************************************************************************)
(* Properties of the labeller (checked under Spec)                         *)
(***************************************************************************)
Done == pc = "done"

\* no surface hit and no relational hit
NoTriggeredRules == surfaceMatches = << >> /\ depMatches = << >>

\* the label _resolve_label returned for the unit (its arguments no longer change)
Resolved == ResolveLabel(scores, flags, DOMAIN hits # {})

\* C1: a unit whose section is REFERENCES ends with the label OTHER, whatever
\* its hits, its structural-citation flag and its scores are.
C1_ReferencesIsOther ==
    (Done /\ it.section_hint = "REFERENCES") => label = "OTHER"

C1_Witness ==
    /\ Done /\ it.section_hint = "REFERENCES"
    /\ it.has_citation /\ Len(surfaceMatches) = 2 /\ MaxScore(scores) >= 6
    /\ ~LooksLikeReference(it.text)
    /\ label = "OTHER"

\* C2 as claimed: a unit without triggered rules outside RESULTS ends with the
\* label OTHER for either value of its structural-citation flag.
C2_Claimed ==
    (Done /\ NoTriggeredRules /\ it.section_hint # "RESULTS") => label = "OTHER"

\* C2 amended: a unit without triggered rules and without a structural
\* citation marker, outside RESULTS, ends with the label OTHER.
C2_NoRulesNoCitationIsOther ==
    (Done /\ NoTriggeredRules /\ ~it.has_citation /\ it.section_hint # "RESULTS")
        => label = "OTHER"

C2_Witness ==
    /\ Done /\ NoTriggeredRules /\ ~it.has_citation
    /\ it.section_hint = "METHODS" /\ MaxScore(scores) = 2
    /\ ~LooksLikeReference(it.text)
    /\ label = "OTHER"

\* C3 as claimed: a unit without triggered rules in RESULTS ends with the
\* label "Result" after the suppression filters.
C3_Claimed ==
    (Done /\ NoTriggeredRules /\ it.section_hint = "RESULTS") => label = "Result"

\* C3 amended: a unit without triggered rules in RESULTS that carries no
\* structural citation marker and whose text does not look like a reference
\* ends with the label "Result".
C3_NoRulesInResultsIsResult ==
    (/\ Done /\ NoTriggeredRules /\ it.section_hint = "RESULTS"
     /\ ~it.has_citation /\ ~LooksLikeReference(it.text))
        => label = "Result"

C3_Witness ==
    /\ Done /\ NoTriggeredRules /\ it.section_hint = "RESULTS"
    /\ ~it.has_citation /\ ~LooksLikeReference(it.text)
    /\ hits = EmptyDict
    /\ label = "Result"

\* the citation-rule family among the identifiers of the rule specification
CitationFamily ==
    { <<"INF", "CIT", "BRACK", "NUM">>, <<"INF", "CIT", "DOI">>, <<"INF", "CITATION">> }

\* at least one hit, and every hit is of the citation family
OnlyCitationHits ==
    /\ Len(surfaceMatches) + Len(depMatches) > 0
    /\ \A i \in 1..Len(surfaceMatches) : surfaceMatches[i] \in CitationFamily
    /\ \A i \in 1..Len(depMatches) : depMatches[i] \in CitationFamily

\* C4: with soft mode on, a unit without structural citation whose hits are
\* all citation-family hits never ends with the label "Input Fact".
C4_CitationSoft ==
    (Done /\ citation_soft /\ ~it.has_citation /\ OnlyCitationHits)
        => label # "Input Fact"

C4_Witness ==
    /\ Done /\ citation_soft /\ ~it.has_citation /\ OnlyCitationHits
    /\ ~LooksLikeReference(it.text)
    /\ Resolved = "Input Fact"
    /\ label = "OTHER"

\* C5: after raw scoring, after the structural bonus and after the boosts the
\* score vector has exactly the 8 role labels as keys.
C5_ScoreKeys ==
    (pc \in {"scored", "bonus", "boosted", "resolved", "reffiltered", "done"})
        => DOMAIN scores = LabelSet

C5_Witness ==
    /\ pc = "boosted"
    /\ it.has_citation /\ it.section_hint = "ABSTRACT"
    /\ flags.has_analysis_test /\ flags.has_pct_list /\ flags.has_hyp_surface_any
    /\ DOMAIN scores = LabelSet

\* C6: a unit whose text looks like a reference ends with the label OTHER,
\* and the final label is what the two filters give in the other order (the
\* citation-soft filter first, the reference-looks filter last).
C6_ReferenceLooksWins ==
    Done =>
        /\ LooksLikeReference(it.text) => label = "OTHER"
        /\ label = RefFilter(it.text,
                             SoftFilter(it.has_citation, citation_soft, hits, Resolved))

C6_Witness ==
    /\ Done /\ LooksLikeReference(it.text)
    /\ citation_soft /\ ~it.has_citation /\ OnlyCitationHits
    /\ Resolved = "Input Fact"
    /\ label = "OTHER"

\* C7: a unit with a structural citation and no rule hits ends with the label
\* "Input Fact" in every section but REFERENCES, soft mode on or off, when its
\* text does not look like a reference.
C7_StructuralCitationAlone ==
    (/\ Done /\ it.has_citation /\ NoTriggeredRules
     /\ it.section_hint # "REFERENCES" /\ ~LooksLikeReference(it.text))
        => label = "Input Fact"

C7_Witness ==
    /\ Done /\ it.has_citation /\ NoTriggeredRules
    /\ it.section_hint = "METHODS" /\ citation_soft
    /\ ~LooksLikeReference(it.text)
    /\ hits = SetKey(EmptyDict, INF_CIT_STRUCT, 1)
    /\ label = "Input Fact"

\* at least one hit, and every hit's identifier starts with pref
OnlyHitsOf(pref) ==
    /\ Len(surfaceMatches) + Len(depMatches) > 0
    /\ \A i \in 1..Len(surfaceMatches) : StartsWith(surfaceMatches[i], pref)
    /\ \A i \in 1..Len(depMatches) : StartsWith(depMatches[i], pref)

\* C13: a unit in INTRO without structural citation whose hits are all
\* hypothesis rules, one of them HYP_SURFACE, and whose text does not look
\* like a reference ends with the label "Hypothesis".
C13_HypothesisInIntro ==
    (/\ Done /\ it.section_hint = "INTRO" /\ ~it.has_citation
     /\ OnlyHitsOf(<<"HYP">>)
     /\ \E i \in 1..Len(surfaceMatches) : surfaceMatches[i] = <<"HYP", "SURFACE">>
     /\ ~LooksLikeReference(it.text))
        => label = "Hypothesis"

C13_Witness ==
    /\ Done /\ it.section_hint = "INTRO" /\ ~it.has_citation
    /\ surfaceMatches = << <<"HYP", "SURFACE">> >>
    /\ depMatches = << <<"HYP", "THAT">> >>
    /\ ~LooksLikeReference(it.text)
    /\ scores["Hypothesis"] = 7 /\ scores["Input Fact"] = 1
    /\ label = "Hypothesis"

\* C14: a unit in RESULTS whose hits are all result-family rules (at least
\* one), with or without structural citation, and whose text does not look
\* like a reference ends with the label "Result".
C14_ResultInResults ==
    (/\ Done /\ it.section_hint = "RESULTS"
     /\ OnlyHitsOf(<<"RES">>)
     /\ ~LooksLikeReference(it.text))
        => label = "Result"

C14_Witness ==
    /\ Done /\ it.section_hint = "RESULTS" /\ it.has_citation
    /\ surfaceMatches = << <<"RES", "ABS", "HEAD", "RESULTS">> >>
    /\ depMatches = << >>
    /\ ~LooksLikeReference(it.text)
    /\ scores["Input Fact"] = 4 /\ scores["Result"] = 3
    /\ label = "Result"

\* the significance flag's causes: a RES_STATS hit or a significance word
Significance == AnyHit(hits, { <<"RES", "STATS">> }) \/ SeqHas(it.text, SIG_WORDS)

\* C18: for a unit with a result-stats hit or a significance word the
\* resolver never returns Dataset; when tie-break and near-tie promotion
\* select Dataset for such a unit, it returns Result.
C18_DatasetPostfix ==
    (pc = "resolved" /\ Significance) =>
        /\ label # "Dataset"
        /\ (~EarlyReturn(flags, DOMAIN hits # {})
             /\ ChooseByOrder(scores, flags.section) = "Dataset") => label = "Result"

C18_Witness ==
    /\ pc = "resolved" /\ SeqHas(it.text, SIG_WORDS)
    /\ surfaceMatches = << <<"DATA", "SURFACE">>, <<"DATA", "SURFACE">> >>
    /\ it.section_hint = "OTHER"
    /\ ChooseByOrder(scores, flags.section) = "Dataset"
    /\ label = "Result"

\* the number of matches in ms whose identifier starts with pref
HitsWith(ms, pref) == Cardinality({i \in 1..Len(ms) : StartsWith(ms[i], pref)})

\* the role prefix of PREFIX2LABEL that maps to lab
PrefixOf(lab) ==
    PREFIX2LABEL[CHOOSE i \in 1..Len(PREFIX2LABEL) : PREFIX2LABEL[i][2] = lab][1]

\* the weight the section's prior table gives to lab, 0 without an entry
RECURSIVE PriorOf(_, _, _)
PriorOf(pri, lab, i) ==
    IF i > Len(pri) THEN 0
    ELSE (IF pri[i][1] = lab THEN pri[i][2] ELSE 0) + PriorOf(pri, lab, i + 1)

\* +1 per surface hit and +2 per relational hit carrying lab's prefix, plus
\* the section prior of lab
BaseAndPrior(lab) ==
    HitsWith(surfaceMatches, PrefixOf(lab)) + 2 * HitsWith(depMatches, PrefixOf(lab))
        + PriorOf(SECTION_PRIORS(it.section_hint), lab, 1)

\* C19: after raw scoring every label other than "Input Fact" holds +1 per
\* surface hit and +2 per relational hit carrying its prefix plus its section
\* prior, and nothing else; "Input Fact" holds the same plus the citation
\* bonus of the surface hits of the citation family; a hit with an unknown
\* prefix and a section without priors add nothing.
C19_RawScores ==
    pc = "scored" =>
        \A lab \in LabelSet :
            scores[lab] =
                BaseAndPrior(lab)
                + (IF lab = "Input Fact"
                   THEN CIT_RULE_BONUS * HitsWith(surfaceMatches, CIT_RULE_PREFIX) ELSE 0)

C19_Witness ==
    /\ pc = "scored" /\ it.section_hint = "METHODS"
    /\ surfaceMatches = << <<"MISC", "NOTE">> >>
    /\ depMatches = << <<"ANA", "DEP">> >>
    /\ scores["Analysis"] = 3 /\ scores["Technique"] = 2 /\ scores["Result"] = 0

\* C20 as claimed: every hit of the citation family, surface or relational,
\* adds the citation bonus to "Input Fact" on top of its base increment.
C20_Claimed ==
    pc = "scored" =>
        scores["Input Fact"] =
            BaseAndPrior("Input Fact")
            + CIT_RULE_BONUS * (HitsWith(surfaceMatches, CIT_RULE_PREFIX)
                                + HitsWith(depMatches, CIT_RULE_PREFIX))

(***************************************************************************)
(* Properties of the span merger (checked under SpecMerge)                 *)
(***************************************************************************)
RECURSIVE SumSeq(_, _)
SumSeq(f, n) == IF n = 0 THEN 0 ELSE f[n] + SumSeq(f, n - 1)

\* first unit of run j when the runs have the lengths lens
RunStart(lens, j) == 1 + SumSeq(lens, j - 1)
RunEnd(lens, j) == SumSeq(lens, j)

\* the texts of units a..b, separated by single spaces
RECURSIVE RunText(_, _, _)
RunText(us, a, b) ==
    IF a = b THEN us[a].text ELSE RunText(us, a, b - 1) \o <<" ">> \o us[b].text

\* the run lengths that cut the first n units into Len(spans) runs
RunLengths(n, spans) == {lens \in [1..Len(spans) -> 1..n] : SumSeq(lens, Len(spans)) = n}

\* spans is the partition of the first n units into maximal runs of equal
\* label and page, in order
IsRunPartition(us, n, spans) ==
    IF n = 0 THEN spans = << >>
    ELSE /\ Len(spans) >= 1
         /\ \E lens \in RunLengths(n, spans) :
                \A j \in 1..Len(spans) :
                    /\ \A i \in RunStart(lens, j)..RunEnd(lens, j) :
                           us[i].label = spans[j].label /\ us[i].page = spans[j].page
                    /\ spans[j].text = RunText(us, RunStart(lens, j), RunEnd(lens, j))
         /\ \A j \in 1..(Len(spans) - 1) :
                ~(spans[j].label = spans[j + 1].label /\ spans[j].page = spans[j + 1].page)

\* rectangle a contains rectangle b
Contains(a, b) == a[1] <= b[1] /\ a[2] <= b[2] /\ a[3] >= b[3] /\ a[4] >= b[4]

\* every coordinate of rectangle a is the coordinate of some unit of a..b
Touches(a, us, lo, hi) == \A c \in 1..4 : \E i \in lo..hi : a[c] = us[i].bbox[c]

\* each span's rectangle contains the rectangles of the units of its run and
\* is the smallest such rectangle
CoversRuns(us, n, spans) ==
    n > 0 =>
        \E lens \in RunLengths(n, spans) :
            \A j \in 1..Len(spans) :
                /\ \A i \in RunStart(lens, j)..RunEnd(lens, j) :
                       /\ us[i].label = spans[j].label /\ us[i].page = spans[j].page
                       /\ Contains(spans[j].bbox, us[i].bbox)
                /\ Touches(spans[j].bbox, us, RunStart(lens, j), RunEnd(lens, j))

\* the units of the first call consumed so far
Consumed == IF mpc = "call" \/ records = << >> THEN 0 ELSE k - 1

\* C8: merging the output of merge_adjacent again returns it unchanged.
C8_MergeIdempotent ==
    (mpc = "returned" /\ pass = 2) => merged = records

C8_Witness ==
    /\ mpc = "returned" /\ pass = 2
    /\ Len(units) = 3 /\ Len(records) = 2
    /\ Len(records[1].text) = 3
    /\ merged = records

\* C9: the output of merge_adjacent is the partition of its input into
\* maximal runs of equal label and page: the runs cover the input in order,
\* each span carries its run's label, page and texts, and no two consecutive
\* spans agree on both label and page.
C9_MaximalRuns ==
    (mpc = "returned" /\ pass = 1) => IsRunPartition(units, Len(units), merged)

C9_Witness ==
    /\ mpc = "returned" /\ pass = 1
    /\ Len(units) = 3 /\ Len(merged) = 2
    /\ units[1].label = units[2].label /\ units[1].page = units[2].page
    /\ units[3].label = units[1].label /\ units[3].page # units[1].page
    /\ merged[2].text = units[3].text

\* C10: after every merge step each span's rectangle contains the rectangle
\* of every unit absorbed into it, its coordinates being the minima (x0, y0)
\* and maxima (x1, y1) over the run.
C10_BBoxContains ==
    (pass = 1 /\ mpc \in {"loop", "returned"}) => CoversRuns(units, Consumed, merged)

C10_Witness ==
    /\ pass = 1 /\ mpc = "loop" /\ k = 4
    /\ Len(merged) = 1
    /\ units[1].bbox = <<1, 1, 2, 2>> /\ units[2].bbox = <<0, 2, 3, 3>>
    /\ units[3].bbox = <<1, 1, 2, 2>>
    /\ merged[1].bbox = <<0, 1, 3, 3>>

(***************************************************************************)
(* Properties of the rectangle union (checked under SpecUnion)             *)
(***************************************************************************)
\* the smallest and the largest of coordinate c over the three rectangles
MinOf3(bs, c) == Min(bs[1][c], Min(bs[2][c], bs[3][c]))
MaxOf3(bs, c) == Max(bs[1][c], Max(bs[2][c], bs[3][c]))

\* C11: the rectangle union is associative and commutative: in whatever
\* order and grouping A, B and C are united, the result is the same
\* rectangle, the coordinate-wise hull of the three.
C11_UnionOrderFree ==
    upc = "done" =>
        hull = <<MinOf3(boxes, 1), MinOf3(boxes, 2), MaxOf3(boxes, 3), MaxOf3(boxes, 4)>>

C11_Witness ==
    /\ upc = "done"
    /\ boxes = << <<1, 0, 0, 1>>, <<0, 1, 1, 0>>, <<1, 1, 0, 0>> >>
    /\ hull = <<0, 0, 1, 1>>

(***************************************************************************)
(* Properties of _resolve_label (checked under SpecKeyOrder, SpecResolve)  *)
(***************************************************************************)
Returned == pc = "returned"

\* C12: whatever the order in which the dict holds the 8 labels, the call
\* returns the label it returns for the dict built in the order of LABELS:
\* the result depends on scores, flags and had_matches only.
C12_KeyOrderFree ==
    Returned => label = ResolveLabel(scores, flags, rl_had_matches)

C12_Witness ==
    /\ Returned /\ rl_had_matches
    /\ flags.section = "METHODS"
    /\ rl_keys = <<"Conclusion", "Analysis", "Dataset", "Result",
                    "Experiment", "Technique", "Hypothesis", "Input Fact">>
    /\ scores["Experiment"] = 2 /\ scores["Technique"] = 2 /\ MaxScore(scores) = 2
    /\ label = "Technique"

\* the call went through lines 272-294
Chose == pc \in {"chosen", "returned"} /\ rl_chosen # NoLabel

\* positions of order whose label scores at least the maximum minus 1
WithinOne(order, s) ==
    {i \in 1..Len(order) : order[i] \in DOMAIN s /\ s[order[i]] >= MaxScore(s) - 1}

\* C15: on the scoring path the label chosen before the postfixes is the
\* first label of the section's order that scores at least the maximum
\* minus 1; when the order lists no such label, it is a maximal label that
\* the order does not list.
C15_FirstWithinOne ==
    Chose =>
        LET order == SECTION_TIE_ORDER(flags.section)
            near == WithinOne(order, scores)
        IN  IF near # {}
            THEN rl_chosen = order[CHOOSE i \in near : \A j \in near : i <= j]
            ELSE /\ scores[rl_chosen] = MaxScore(scores)
                 /\ \A i \in 1..Len(order) : order[i] # rl_chosen

C15_Witness ==
    /\ Chose /\ flags.section = "OTHER"
    /\ scores["Hypothesis"] = 3 /\ scores["Input Fact"] = 2 /\ scores["Conclusion"] = 0
    /\ rl_chosen = "Input Fact"

\* order lists each of the 8 role labels once and nothing else
IsTotalOrder(order) ==
    /\ Len(order) = Len(LABELS)
    /\ {order[i] : i \in 1..Len(order)} = LabelSet

\* C16 as claimed: the order the resolver uses, the section's own list or
\* the fallback list, holds each of the 8 role labels exactly once and
\* nothing else.
C16_Claimed ==
    Chose => IsTotalOrder(SECTION_TIE_ORDER(flags.section))

\* evidence flags read by the postfixes
ResultEvidence == flags.has_res_summary \/ flags.has_res_verb_cues \/ flags.has_res_stats

\* C17: when Technique is chosen the call returns Analysis if analysis
\* evidence is present (result evidence or not); otherwise, with result
\* evidence, Conclusion in DISCUSSION, INTRO and ABSTRACT and Result in the
\* other sections; no call with analysis or result evidence returns Technique.
C17_TechniquePostfix ==
    Returned =>
        /\ (rl_chosen = "Technique" /\ flags.has_analysis_test) => label = "Analysis"
        /\ (rl_chosen = "Technique" /\ ~flags.has_analysis_test /\ ResultEvidence)
               => label = (IF flags.section \in {"DISCUSSION", "INTRO", "ABSTRACT"}
                           THEN "Conclusion" ELSE "Result")
        /\ (flags.has_analysis_test \/ ResultEvidence) => label # "Technique"

C17_Witness ==
    /\ Returned /\ rl_chosen = "Technique"
    /\ flags.section = "ABSTRACT"
    /\ ~flags.has_analysis_test /\ flags.has_res_verb_cues
    /\ label = "Conclusion"

(***************************************************************************)
(* Properties of label_items: hits with an unknown prefix                  *)
(***************************************************************************)
\* name starts with one of the role prefixes of PREFIX2LABEL
KnownPrefix(name) ==
    \E i \in 1..Len(PREFIX2LABEL) : StartsWith(name, PREFIX2LABEL[i][1])

\* the matches of ms whose identifier carries a known role prefix
WithoutUnknown(ms) == SelectSeq(ms, KnownPrefix)

\* the decision for the same unit with the unknown-prefix hits removed
WithoutUnknownHits ==
    LabelUnit(it, WithoutUnknown(surfaceMatches), WithoutUnknown(depMatches), citation_soft)

\* C21 as claimed: a unit gets the same score vector and the same final
\* label as the same unit with its unknown-prefix hits removed, also when
\* they are its only hits.
C21_Claimed ==
    Done => /\ scores = WithoutUnknownHits.scores
            /\ label = WithoutUnknownHits.label

(***************************************************************************)
(* Properties of label_items: the boosts                                   *)
(***************************************************************************)
\* C22: _apply_boosts leaves the Dataset score of a unit whose significance
\* flag is set as raw scoring made it, in every section; whenever it raises
\* the Dataset score, the dataset-cue flag is true and the significance flag
\* is false.
C22_DatasetBoostGuard ==
    pc = "boosted" =>
        /\ flags.has_significance => scores["Dataset"] = BaseAndPrior("Dataset")
        /\ scores["Dataset"] > BaseAndPrior("Dataset")
               => flags.has_dataset_cues /\ ~flags.has_significance
        /\ scores["Dataset"] >= BaseAndPrior("Dataset")

C22_Witness ==
    /\ pc = "boosted" /\ it.section_hint = "METHODS"
    /\ flags.has_significance /\ flags.has_dataset_cues /\ ~flags.has_analysis_test
    /\ scores["Dataset"] = 2

\* C27: every entry of the score vector is non-negative after raw scoring,
\* after the structural bonus and after the boosts (and stays so, the later
\* steps do not write scores).
C27_ScoresNonNegative ==
    pc # "start" => \A lab \in DOMAIN scores : scores[lab] >= 0

C27_Witness ==
    /\ pc = "boosted" /\ it.section_hint = "INTRO"
    /\ flags.has_hyp_surface_any /\ BaseAndPrior("Technique") > 0
    /\ scores["Technique"] =
           BaseAndPrior("Technique")
           + (IF flags.has_tech_using \/ flags.has_scale_classification
              THEN BOOST_TEC ELSE 0)
           - 1
    /\ scores["Hypothesis"] >= 2

(***************************************************************************)
(* Properties of _resolve_label: the postfixes and OTHER                   *)
(***************************************************************************)
\* how many of the four postfixes change chosen, starting from c
PostfixChanges(c, f) ==
    Cardinality({i \in 1..4 : PostfixTrace(c, f)[i] # PostfixTrace(c, f)[i + 1]})

\* C25: at most one of the four postfixes changes the chosen label, and the
\* postfixes applied to their own result change nothing: for the label the
\* call chose, and for every label, OTHER included, under the call's flags.
C25_PostfixOnce ==
    Returned =>
        /\ rl_chosen # NoLabel =>
               /\ PostfixChanges(rl_chosen, flags) <= 1
               /\ Postfix(label, flags) = label
        /\ \A c \in LabelSet \cup {"OTHER"} :
               /\ PostfixChanges(c, flags) <= 1
               /\ Postfix(Postfix(c, flags), flags) = Postfix(c, flags)

C25_Witness ==
    /\ Returned /\ rl_chosen = "Technique"
    /\ flags.has_analysis_test /\ ResultEvidence
    /\ PostfixChanges(rl_chosen, flags) = 1
    /\ label = "Analysis"

\* C26: on the scoring path the label chosen by tie-break and near-tie
\* promotion is one of the 8 role labels, the third postfix (OTHER with
\* experiment evidence) does not fire, and the call returns a role label; a
\* call on a non-empty score dict returns OTHER only through the early return.
C26_NeverChoosesOther ==
    /\ rl_chosen # NoLabel =>
           /\ rl_chosen \in LabelSet
           /\ PostfixTrace(rl_chosen, flags)[3] = PostfixTrace(rl_chosen, flags)[4]
           /\ ~EarlyReturn(flags, rl_had_matches)
    /\ (Returned /\ rl_chosen # NoLabel) => label \in LabelSet
    /\ (Returned /\ label = "OTHER" /\ DOMAIN scores # {})
           => EarlyReturn(flags, rl_had_matches) /\ rl_chosen = NoLabel

C26_Witness ==
    /\ Returned /\ flags.section = "OTHER" /\ flags.has_experiment_ops
    /\ DOMAIN scores = LabelSet
    /\ scores["Hypothesis"] = 3 /\ scores["Experiment"] = 1
    /\ \A lab \in LabelSet \ {"Hypothesis", "Experiment"} : scores[lab] = 0
    /\ rl_chosen = "Hypothesis"
    /\ label = "Hypothesis"

(***************************************************************************)
(* Properties of label_items: the loop                                     *)
(***************************************************************************)
\* the record label_items returns for items[j] when it is labelled alone,
\* placed at index j - 1
RecordAlone(j) ==
    LET r == LabelUnit(items[j].unit, items[j].surface, items[j].dep, citation_soft)
    IN  OutRecord(j - 1, items[j].unit, r.label, r.scores, r.hits)

\* C24: at every moment out holds one record per item handled so far, in
\* input order, and record j is the record of items[j] labelled alone (same
\* hit map, score vector and label); when a unit is finished the hit map,
\* score vector, flags and label in use are those the unit gets alone; the
\* returned list has one record per item.
C24_UnitIsolation ==
    /\ Len(out) <= Len(items)
    /\ \A j \in 1..Len(out) : out[j] = RecordAlone(j)
    /\ pc = "done" =>
           LET r == LabelUnit(it, surfaceMatches, depMatches, citation_soft)
           IN  /\ Len(out) = idx + 1
               /\ it = items[idx + 1].unit
               /\ hits = r.hits /\ scores = r.scores /\ flags = r.flags /\ label = r.label
    /\ pc = "end" => Len(out) = Len(items)

C24_Witness ==
    /\ pc = "end" /\ Len(items) = 2 /\ Len(out) = 2
    /\ items[1].surface = << <<"TEC", "USING">> >> /\ items[2].surface = << >>
    /\ ~items[2].unit.has_citation
    /\ items[2].unit.section_hint = "METHODS"
    /\ out[1].label # "OTHER" /\ out[1].idx = 0
    /\ out[2].matches = EmptyDict /\ out[2].label = "OTHER" /\ out[2].idx = 1

(***************************************************************************)
(* Properties of tei_iter_sentences (checked under SpecWalk)               *)
(***************************************************************************)
\* the element the next loop iteration processes
NextElement == tei[tpos + 1]

\* C23: the tracker starts as OTHER, and a step changes it only if the
\* element processed is a heading whose text maps to a section other than
\* OTHER, the tracker then taking that section; a sentence, a figure caption
\* and a heading that maps to OTHER leave it unchanged.
C23_TrackerChangesOnHeads ==
    /\ [](tpos = 0 => current_imrad_section = "OTHER")
    /\ [][/\ current_imrad_section' # current_imrad_section
              => /\ Tag(NextElement) = "head"
                 /\ MapHeadToHint(NextElement.text) # "OTHER"
                 /\ current_imrad_section' = MapHeadToHint(NextElement.text)
          /\ (tpos' = tpos + 1 /\ Tag(NextElement) \in {"s", "figDesc"})
              => current_imrad_section' = current_imrad_section
          /\ (tpos' = tpos + 1 /\ Tag(NextElement) = "head"
                  /\ MapHeadToHint(NextElement.text) = "OTHER")
              => current_imrad_section' = current_imrad_section]_vars

C23_Witness ==
    /\ tpos = 3
    /\ Tag(tei[1]) = "head" /\ tei[1].text = <<"2", "methods">>
    /\ Tag(tei[2]) = "head" /\ tei[2].text = <<"study", "population">>
    /\ Tag(tei[3]) = "s" /\ tei[3].text # << >>
    /\ current_imrad_section = "METHODS"
    /\ Len(yielded) = 1

\* a heading of the document body, not the head child of a table
IsBodyHead(el) ==
    Tag(el) = "head" /\ el.path[Len(el.path) - 1] # "table"

\* the section of the latest of the first n elements that is a body heading
\* mapping to a section other than OTHER; OTHER if there is none
RECURSIVE BodySection(_)
BodySection(n) ==
    IF n = 0 THEN "OTHER"
    ELSE IF IsBodyHead(tei[n]) /\ MapHeadToHint(tei[n].text) # "OTHER"
         THEN MapHeadToHint(tei[n].text)
         ELSE BodySection(n - 1)

\* C28 as claimed: the tracker is decided by the section headings of the
\* body alone, so the units after a table get the section of the units
\* before it, whatever the table caption's text is.
C28_Claimed == current_imrad_section = BodySection(tpos)

\* the section of the latest of the first n elements that is a heading (of
\* any kind) mapping to a section other than OTHER; OTHER if there is none
RECURSIVE HeadSection(_)
HeadSection(n) ==
    IF n = 0 THEN "OTHER"
    ELSE IF Tag(tei[n]) = "head" /\ MapHeadToHint(tei[n].text) # "OTHER"
         THEN MapHeadToHint(tei[n].text)
         ELSE HeadSection(n - 1)

\* the element yields a unit
Yields(el) ==
    \/ Tag(el) \in {"s", "figDesc"} /\ el.text # << >>
    \/ Tag(el) = "table" /\ el.thead # NoHead /\ el.thead[1] # << >>

\* the positions, among the first n elements, of those that yield a unit
YieldPositions(n) == SelectSeq([i \in 1..n |-> i], LAMBDA i : Yields(tei[i]))

\* C29: in parse_pdf_grobid every sentence unit yielded so far carries
\* ABSTRACT if its element lies inside the abstract and otherwise the section
\* of the latest heading before it that maps to a section other than OTHER
\* (OTHER if there is none); the tracker is that section of the latest
\* heading, whether or not sentences of the abstract were yielded.
C29_SentenceSection ==
    impl = "parse_pdf_grobid" =>
        /\ Len(yielded) = Len(YieldPositions(tpos))
        /\ \A j \in 1..Len(yielded) :
               LET q == YieldPositions(tpos)[j]
               IN  Tag(tei[q]) = "s" =>
                       /\ yielded[j].text = tei[q].text
                       /\ ~yielded[j].is_caption
                       /\ yielded[j].section_hint =
                              (IF IsInAbstract(tei[q]) THEN "ABSTRACT" ELSE HeadSection(q - 1))
        /\ current_imrad_section = HeadSection(tpos)

C29_Witness ==
    /\ impl = "parse_pdf_grobid" /\ tpos = 3 /\ Len(tei) = 3
    /\ Tag(tei[1]) = "head" /\ MapHeadToHint(tei[1].text) = "DISCUSSION"
    /\ Tag(tei[2]) = "s" /\ tei[2].path[1] = "front"
    /\ Tag(tei[3]) = "s" /\ ~IsInAbstract(tei[3])
    /\ Len(yielded) = 2
    /\ yielded[1].section_hint = "ABSTRACT"
    /\ yielded[2].section_hint = "DISCUSSION"

(***************************************************************************)
(* Properties of the two span mergers (checked under SpecBoth)             *)
(***************************************************************************)
\* C30: when both functions have returned, they returned the same sequence
\* of spans (label, page, text, bounding rectangle), for the empty list and
\* a single record too, and the records they were called on are as they
\* were handed over.
C30_MergersAgree ==
    (mpc = "returned" /\ sm_pc = "returned") =>
        /\ sm_merged = merged
        /\ records = units

C30_Witness ==
    /\ mpc = "returned" /\ sm_pc = "returned"
    /\ Len(records) = 3 /\ Len(sm_merged) = 2
    /\ SameSpan(records[2], records[1]) /\ ~SameSpan(records[3], records[2])
    /\ sm_merged[1].text = records[1].text \o <<" ">> \o records[2].text
    /\ sm_merged[2] = records[3]
    /\ merged = sm_merged

====
